---- MODULE Spec2Model ----
(***************************************************************************)
(* Model of apps/briefs/src/.ipynb_checkpoints/llm-checkpoint.py: the      *)
(* module-level Google API key configuration and call_llm, the bridge that *)
(* converts an OpenAI-style transcript to Gemini 'contents', performs one  *)
(* generate_content call and normalises the response or the error.         *)
(*                                                                         *)
(* Conventions.  Python None / a missing dict key / an absent attribute is *)
(* the empty sequence <<>> and a present value v is <<v>> (an option).     *)
(* A Python str is a sequence of string tokens, so that concatenation      *)
(* (f-strings, "".join) is \o and "starts with" / "contains" are checks on *)
(* tokens.  Temperatures are in tenths (0.0 is 0, 1.0 is 10, -5 is -50).   *)
(***************************************************************************)
EXTENDS Integers, Sequences, FiniteSets, TLC

\* ------------------------------------------------------------------ bounds
MaxLen == 2        \* longest transcript drawn as input
MaxCand == 2       \* most candidates in a remote response

\* --------------------------------------------------------- program constants
TempLo == 0        \* 0.0 in max(0.0, ...), in tenths
TempHi == 10       \* 1.0 in min(1.0, ...), in tenths

\* ------------------------------------------------------------------- inputs
UpTo(S, n) == UNION {[1..k -> S] : k \in 0..n}

StrVal(s) == [isNone |-> FALSE, s |-> s]
NoneVal == [isNone |-> TRUE, s |-> <<>>]

Dict(role, content) == [isDict |-> TRUE, role |-> role, content |-> content]
NonDict == [isDict |-> FALSE, role |-> <<>>, content |-> <<>>]

\* Transcript entries: well-formed ones, one with null content, ones missing
\* a key, and one that is not a dict at all (e.g. None in the list).
Entries ==
    { Dict(<<"user">>, <<StrVal(<<"hello">>)>>),
      Dict(<<"assistant">>, <<StrVal(<<"hello">>)>>),
      Dict(<<"system">>, <<StrVal(<<"hello">>)>>),
      Dict(<<"user">>, <<NoneVal>>),
      Dict(<<>>, <<StrVal(<<"hello">>)>>),
      Dict(<<"user">>, <<>>),
      NonDict }

Transcripts == UpTo(Entries, MaxLen)

Models == {"m1", "m2"}

Temps == {-50, 0, 5, 10, 37}

Usage1 == [promptTokens |-> 5, completionTokens |-> 2]
Usages == {<<>>, <<Usage1>>}

Candidate(content, fr) == [content |-> content, finish_reason |-> fr]

Candidates ==
    { Candidate(<<>>, "SAFETY"),
      Candidate(<< <<>> >>, "MAX_TOKENS"),
      Candidate(<< << <<"hi there">> >> >>, "STOP"),
      Candidate(<< << <<"hi ">>, <<"there">> >> >>, "STOP") }

Feedbacks == {<<>>, <<[block_reason |-> "BLOCKED_SAFETY"]>>}

Responses ==
    { [candidates |-> c, prompt_feedback |-> f, usage_metadata |-> u] :
        c \in UpTo(Candidates, MaxCand), f \in Feedbacks, u \in Usages }

ExcTypes == {"PermissionDenied", "ResourceExhausted", "NotFound",
             "InvalidArgument", "ServiceUnavailable"}

Exc(type, msg) == [type |-> type, msg |-> msg]

\* What gemini_model.generate_content does if it is called.
Raises(e) == [kind |-> "raise", exc |-> <<e>>, resp |-> <<>>]
Responds(r) == [kind |-> "respond", exc |-> <<>>, resp |-> <<r>>]

Remotes ==
    { Raises(Exc(t, <<"429 limit">>)) : t \in ExcTypes } \cup
    { Responds(r) : r \in Responses }

Envs == [hasKey : BOOLEAN, configureOk : BOOLEAN]

\* ------------------------------------------------------------------- state
VARIABLES
    env,                     \* the process environment the module is loaded in
    loaded,                  \* the module-level code has run
    IS_API_KEY_CONFIGURED,   \* the global flag
    last                     \* the invocation in hand: inputs, request, outcome

vars == <<env, loaded, IS_API_KEY_CONFIGURED, last>>

\* ---------------------------------------------------------------- call_llm
Return(text, usage, line) ==
    [kind |-> "return", text |-> text, usage |-> usage, exc |-> "", line |-> line]

Raise(exc, line) ==
    [kind |-> "raise", text |-> <<>>, usage |-> <<>>, exc |-> exc, line |-> line]

Result(request, outcome) ==
    [request |-> request,
     remoteCalls |-> IF request = <<>> THEN 0 ELSE 1,
     outcome |-> outcome]

PyMax(a, b) == IF b > a THEN b ELSE a
PyMin(a, b) == IF b < a THEN b ELSE a

Clamp_NoLower(temperature) == PyMin(TempHi, temperature)

Clamp(temperature) == PyMax(TempLo, PyMin(TempHi, temperature))

Str(c) == IF c.isNone THEN <<"None">> ELSE c.s

MapRole_OnlyUser(role) == IF role = "user" THEN "user" ELSE "model"

MapRole(role) == IF role = "assistant" THEN "model" ELSE role

IsValid(msg) == msg.role # <<>> /\ msg.content # <<>>

ProviderMessage(msg) ==
    [role |-> MapRole(Head(msg.role)),
     parts |-> << [text |-> Str(Head(msg.content))] >>]

\* The conversion loop: 'role' in msg raises TypeError on a non-dict entry,
\* leaving google_contents as built so far.
RECURSIVE ConvertFrom(_, _, _)
ConvertFrom(messages, i, acc) ==
    IF i > Len(messages) THEN [raised |-> FALSE, contents |-> acc]
    ELSE LET msg == messages[i] IN
         IF ~msg.isDict THEN [raised |-> TRUE, contents |-> acc]
         ELSE IF IsValid(msg)
              THEN ConvertFrom(messages, i + 1, Append(acc, ProviderMessage(msg)))
              ELSE ConvertFrom(messages, i + 1, acc)

Convert(messages) == ConvertFrom(messages, 1, <<>>)

NoValid_Never(google_contents) == FALSE

NoValid(google_contents) == google_contents = <<>>

RECURSIVE Join(_)
Join(parts) == IF parts = <<>> THEN <<>> ELSE Head(parts) \o Join(Tail(parts))

LastCandidate(candidates) == candidates[Len(candidates)]

FirstCandidate(candidates) == candidates[1]

HasContentParts_AnyContent(cand) == cand.content # <<>>

HasContentParts(cand) == cand.content # <<>> /\ Head(cand.content) # <<>>

ExtractResult(response) ==
    LET usage_data == response.usage_metadata IN
    IF response.candidates # <<>>
    THEN LET cand == FirstCandidate(response.candidates) IN
         IF HasContentParts(cand)
         THEN Return(Join(Head(cand.content)), usage_data, 99)
         ELSE Return(<<"Error: Generation finished without content. Reason: ",
                       cand.finish_reason>>, usage_data, 104)
    ELSE LET block_reason ==
                 IF response.prompt_feedback # <<>>
                 THEN Head(response.prompt_feedback).block_reason
                 ELSE "UNKNOWN" IN
         Return(<<"Error: LLM call failed. Prompt Block Reason: ", block_reason>>,
                usage_data, 109)

ErrorPrefix_QuotaAsNotFound(type) ==
    CASE type = "PermissionDenied" -> <<"Error: Permission Denied">>
      [] type = "ResourceExhausted" -> <<"Error: Not Found">>
      [] type = "NotFound" -> <<"Error: Not Found">>
      [] type = "InvalidArgument" -> <<"Error: Invalid Argument">>
      [] OTHER -> <<>>

ErrorPrefix(type) ==
    CASE type = "PermissionDenied" -> <<"Error: Permission Denied">>
      [] type = "ResourceExhausted" -> <<"Error: Quota Exceeded">>
      [] type = "NotFound" -> <<"Error: Not Found">>
      [] type = "InvalidArgument" -> <<"Error: Invalid Argument">>
      [] OTHER -> <<>>

ReturnLine(type) ==
    CASE type = "PermissionDenied" -> 114
      [] type = "ResourceExhausted" -> 117
      [] type = "NotFound" -> 120
      [] type = "InvalidArgument" -> 125

\* The except clauses.  The generic clause evaluates e._class inside its
\* print, an attribute no exception has: AttributeError leaves the function.
HandleException(e) ==
    IF ErrorPrefix(e.type) # <<>>
    THEN Return(ErrorPrefix(e.type) \o <<" - ">> \o e.msg, <<>>, ReturnLine(e.type))
    ELSE Raise("AttributeError", 128)

TypeError == Exc("TypeError", <<"argument of type 'NoneType' is not iterable">>)

call_llm_body(model, messages, temperature, remote) ==
    LET conv == Convert(messages) IN
    IF conv.raised THEN Result(<<>>, HandleException(TypeError))
    ELSE IF NoValid(conv.contents)
    THEN Result(<<>>, Return(<<"Error: ", "No valid messages", " to send">>, <<>>, 76))
    ELSE LET request == [model |-> model,
                         contents |-> conv.contents,
                         temperature |-> Clamp(temperature)] IN
         IF remote.kind = "raise"
         THEN Result(<<request>>, HandleException(Head(remote.exc)))
         ELSE Result(<<request>>, ExtractResult(Head(remote.resp)))

Disabled == Result(<<>>, Return(<<"Error: Library not configured">>, <<>>, 59))

call_llm_NoGuard(configured, model, messages, temperature, remote) ==
    call_llm_body(model, messages, temperature, remote)

call_llm(configured, model, messages, temperature, remote) ==
    IF ~configured THEN Disabled
    ELSE call_llm_body(model, messages, temperature, remote)

\* ------------------------------------------------------------------ actions
NoRemote == [kind |-> "none", exc |-> <<>>, resp |-> <<>>]

NoCall ==
    [called |-> FALSE, model |-> "", messages |-> <<>>, temperature |-> 0,
     remote |-> NoRemote, result |-> Result(<<>>, Return(<<>>, <<>>, 0))]

Init ==
    /\ env \in Envs
    /\ loaded = FALSE
    /\ IS_API_KEY_CONFIGURED = FALSE
    /\ last = NoCall

\* Module level: os.environ["GOOGLE_API_KEY"], genai.configure, set the flag.
ConfigureKey ==
    /\ ~loaded
    /\ loaded' = TRUE
    /\ IS_API_KEY_CONFIGURED' = (env.hasKey /\ env.configureOk)
    /\ UNCHANGED <<env, last>>

\* Whether the invocation gets as far as generate_content: the request does
\* not depend on what the remote would do.
Reaches(configured, model, messages, temperature) ==
    call_llm(configured, model, messages, temperature,
             CHOOSE r \in Remotes : TRUE).remoteCalls = 1

\* One whole invocation.  The remote service acts only if the invocation
\* reaches generate_content; what it does then is the environment's choice.
CallLLM ==
    /\ loaded
    /\ ~last.called
    /\ \E model \in Models, messages \in Transcripts, temperature \in Temps :
         \E remote \in (IF Reaches(IS_API_KEY_CONFIGURED, model, messages, temperature)
                        THEN Remotes ELSE {NoRemote}) :
            last' = [called |-> TRUE, model |-> model, messages |-> messages,
                     temperature |-> temperature, remote |-> remote,
                     result |-> call_llm(IS_API_KEY_CONFIGURED, model, messages,
                                         temperature, remote)]
    /\ UNCHANGED <<env, loaded, IS_API_KEY_CONFIGURED>>

\* The tuple goes to the caller; nothing of the invocation is kept.
ReturnToCaller ==
    /\ last.called
    /\ last' = NoCall
    /\ UNCHANGED <<env, loaded, IS_API_KEY_CONFIGURED>>

Next == ConfigureKey \/ CallLLM \/ ReturnToCaller

Spec == Init /\ [][Next]_vars

\* ------------------------------------------------------------ the invocation
Called == last.called
Sent == last.called /\ last.result.request # <<>>
Req == Head(last.result.request)
Out == last.result.outcome
Resp == Head(last.remote.resp)

HasRoleAndContent(m) == m.isDict /\ m.role # <<>> /\ m.content # <<>>
HasRoleAndNonNullContent(m) == HasRoleAndContent(m) /\ ~Head(m.content).isNone
AllDicts(messages) == \A i \in 1..Len(messages) : messages[i].isDict

RECURSIVE ConcatUpTo(_, _)
ConcatUpTo(parts, n) ==
    IF n = 0 THEN <<>> ELSE ConcatUpTo(parts, n - 1) \o parts[n]

MappedTypes == {"PermissionDenied", "ResourceExhausted", "NotFound", "InvalidArgument"}

\* C1: call_llm never raises; every invocation ends by returning a
\* (text, usage) pair.
C1_NeverRaises == Called => Out.kind = "return"

\* C2: once the module is loaded without a credential, no step changes the
\* flag, and every invocation, whatever its model, transcript and
\* temperature, returns the fixed disabled-state error with usage None and
\* makes no remote call.
C2_DisabledPermanent ==
    [][(loaded /\ ~env.hasKey) =>
          /\ IS_API_KEY_CONFIGURED' = IS_API_KEY_CONFIGURED
          /\ ~IS_API_KEY_CONFIGURED'
          /\ last'.called =>
                /\ last'.result.request = <<>>
                /\ last'.result.remoteCalls = 0
                /\ last'.remote.kind = "none"
                /\ last'.result.outcome.kind = "return"
                /\ last'.result.outcome.text = <<"Error: Library not configured">>
                /\ last'.result.outcome.usage = <<>>]_vars

C2_Witness ==
    /\ loaded /\ ~env.hasKey /\ Called
    /\ last.temperature = 37
    /\ Len(last.messages) = 2 /\ ~last.messages[1].isDict
    /\ Out.text = <<"Error: Library not configured">>

\* C3: with the flag set, a transcript with no entry that has both a role
\* and a content key (the empty one included) returns an error whose text
\* contains "No valid messages", with usage None and no remote call.
C3_NoValidMessages ==
    (/\ Called /\ IS_API_KEY_CONFIGURED
     /\ \A i \in 1..Len(last.messages) :
           last.messages[i].isDict /\ ~HasRoleAndContent(last.messages[i]))
    => /\ Out.kind = "return"
       /\ \E k \in 1..Len(Out.text) : Out.text[k] = "No valid messages"
       /\ Out.usage = <<>>
       /\ last.result.remoteCalls = 0
       /\ last.result.request = <<>>
       /\ last.remote.kind = "none"

C3_Witness ==
    /\ Called /\ IS_API_KEY_CONFIGURED
    /\ Len(last.messages) = 2
    /\ last.messages[1].isDict /\ last.messages[1].role = <<>>
    /\ last.messages[2].isDict /\ last.messages[2].content = <<>>
    /\ last.result.remoteCalls = 0

\* C4: in a request that is sent, the i-th ProviderMessage comes from the
\* i-th message that has a role and content: its role is "model" if that
\* role is "assistant" and the role itself otherwise, and its parts is one
\* text part holding the content.
C4_RoleMapping ==
    Sent =>
      LET valid == SelectSeq(last.messages, HasRoleAndContent) IN
      /\ Len(Req.contents) = Len(valid)
      /\ \A i \in 1..Len(valid) :
            LET role == Head(valid[i].role)
                content == Head(valid[i].content)
                pm == Req.contents[i] IN
            /\ role = "assistant" => pm.role = "model"
            /\ role # "assistant" => pm.role = role
            /\ Len(pm.parts) = 1
            /\ ~content.isNone => pm.parts[1].text = content.s

C4_Witness ==
    /\ Sent
    /\ Len(Req.contents) = 2
    /\ Head(last.messages[1].role) = "assistant" /\ Req.contents[1].role = "model"
    /\ Head(last.messages[2].role) = "system" /\ Req.contents[2].role = "system"

\* C5: the temperature of a request that is sent is within [0.0, 1.0],
\* 0.0 for an input below 0.0 and 1.0 for one above 1.0, and the invocation
\* produces the request and the result that the same invocation with the
\* clamped temperature as its input produces; no temperature is rejected.
C5_TemperatureClamp ==
    Called =>
      LET t == last.temperature
          c == IF t < 0 THEN 0 ELSE IF t > 10 THEN 10 ELSE t IN
      /\ Sent => Req.temperature = c /\ Req.temperature \in 0..10
      /\ last.result = call_llm(IS_API_KEY_CONFIGURED, last.model, last.messages,
                                c, last.remote)
      /\ (IS_API_KEY_CONFIGURED /\ AllDicts(last.messages)
            /\ \E i \in 1..Len(last.messages) : HasRoleAndContent(last.messages[i]))
           => Sent

C5_Witness ==
    /\ Sent
    /\ last.temperature = -50 /\ Req.temperature = 0
    /\ Out.line = 99

\* C6: when the remote responds with a first candidate that has content
\* parts, the text returned is the concatenation in order of the texts of
\* that candidate's parts, whatever the later candidates are, and the usage
\* returned is the response's usage metadata.
C6_SuccessText ==
    (/\ Called /\ last.remote.kind = "respond"
     /\ Resp.candidates # <<>>
     /\ Resp.candidates[1].content # <<>>
     /\ Head(Resp.candidates[1].content) # <<>>)
    => LET parts == Head(Resp.candidates[1].content) IN
       /\ Out.kind = "return"
       /\ Out.text = ConcatUpTo(parts, Len(parts))
       /\ Out.usage = Resp.usage_metadata

C6_Witness ==
    /\ Called /\ last.model = "m1" /\ last.temperature = 0
    /\ last.messages = <<Dict(<<"user">>, <<StrVal(<<"hello">>)>>)>>
    /\ last.remote.kind = "respond"
    /\ Len(Resp.candidates) = 1
    /\ Resp.usage_metadata = <<[promptTokens |-> 5, completionTokens |-> 2]>>
    /\ Out.text = <<"hi there">>
    /\ Out.usage = <<[promptTokens |-> 5, completionTokens |-> 2]>>

\* C7: when generate_content raises PermissionDenied, ResourceExhausted,
\* NotFound or InvalidArgument, exactly one remote call was made and the
\* invocation returns usage None and a text made of a prefix, " - " and the
\* exception's message; the prefix is "Error: Quota Exceeded" for
\* ResourceExhausted and differs from the prefix of every other category.
C7_MappedErrors ==
    (/\ Called /\ last.remote.kind = "raise"
     /\ Head(last.remote.exc).type \in MappedTypes)
    => LET e == Head(last.remote.exc) IN
       /\ last.result.remoteCalls = 1
       /\ Out.kind = "return"
       /\ Out.usage = <<>>
       /\ Len(Out.text) >= 2
       /\ SubSeq(Out.text, 2, Len(Out.text)) = <<" - ">> \o e.msg
       /\ e.type = "ResourceExhausted" => Head(Out.text) = "Error: Quota Exceeded"
       /\ \A t \in MappedTypes \ {e.type} :
             Head(Out.text) # Head(HandleException(Exc(t, e.msg)).text)

C7_Witness ==
    /\ Called /\ last.remote.kind = "raise"
    /\ Head(last.remote.exc).type = "ResourceExhausted"
    /\ Head(Out.text) = "Error: Quota Exceeded"
    /\ last.result.remoteCalls = 1

\* C8: every result returned other than the generated text (return sites
\* other than line 99) has usage None; a usage that is not None comes only
\* with generated text.
C8_Discriminated ==
    (Called /\ Out.kind = "return" /\ Out.line # 99) => Out.usage = <<>>

C10_DropMalformed ==
    /\ Sent =>
         LET valid == SelectSeq(last.messages, HasRoleAndNonNullContent) IN
         /\ Len(Req.contents) = Len(valid)
         /\ \A i \in 1..Len(valid) :
               Req.contents[i].parts[1].text = Head(valid[i].content).s
    /\ (/\ Called /\ IS_API_KEY_CONFIGURED /\ AllDicts(last.messages)
        /\ \E i \in 1..Len(last.messages) :
              HasRoleAndNonNullContent(last.messages[i]))
       => Sent

====
